---- MODULE Spec2Model ----
(***************************************************************************)
(* FluteMaestro: the per-tick pipeline of the audio processors (pitch ->   *)
(* western note -> swar, with the note and swar stabilizers), the session  *)
(* control (startProcessing / stopProcessing / updateScale) and the state  *)
(* the Home component merges from the processor's updates.                 *)
(*                                                                         *)
(* The repository holds several revisions of the processor.  The variable  *)
(* impl says which one the application instantiates:                       *)
(*   "amdf"   lib/audioProcessor, throttled revision  (part_001:1-431)     *)
(*   "yin"    lib/audioProcessor, YIN revision        (part_001:433-841)   *)
(*   "simple" lib/simpleAudio.ts                                           *)
(*   "basic"  lib/basicAudio.js                                            *)
(*                                                                         *)
(* Representation.                                                         *)
(*  - A string the code takes apart (charAt, includes) is a sequence of    *)
(*    one-character strings: 'C#' is <<"C", "#">>.                         *)
(*  - A detected frequency f is represented by its pitch in cents above    *)
(*    C0, x = 1200 * log2(f / C0), an integer; exactHalfSteps = x / 100.   *)
(*    "No pitch" is -1, as in the code.                                    *)
(*  - A sample is an integer number of thousandths.                        *)
(*  - Times are milliseconds; Date.now() is the variable now.              *)
(*  - A nullable resource is a BOOLEAN: TRUE when it is not null.          *)
(*  - An update (Partial<AudioState>) is a function from the field names   *)
(*    it carries to their values.                                          *)
(***************************************************************************)
EXTENDS Integers, Sequences, FiniteSets, TLC

(***************************************************************************)
(* Bounds of the model.                                                    *)
(***************************************************************************)
\* Date.now() advances at most this many clock quanta after page load.
MaxSteps == 7
\* At most this many startProcessing calls are suspended at their await.
MaxStarts == 1

\* The clock advances in quanta of this many milliseconds.
Quantum == 50
\* Date.now() when the page is loaded; the fields initialised to 0
\* (lastSwarTimestamp, lastNoteTimestamp, lastProcessingTime) are far older.
PageLoad == 1000

Impls == {"amdf", "yin", "simple", "basic"}

(***************************************************************************)
(* client/src/types/index.ts                                               *)
(***************************************************************************)
WESTERN_NOTES ==
  << <<"C">>, <<"C", "#">>, <<"D">>, <<"D", "#">>, <<"E">>, <<"F">>,
     <<"F", "#">>, <<"G">>, <<"G", "#">>, <<"A">>, <<"A", "#">>, <<"B">> >>

\* The keys of SCALES: the roots the scale selector offers.
SCALES == { WESTERN_NOTES[i] : i \in 1..12 }

(***************************************************************************)
(* JavaScript primitives the code uses.                                    *)
(***************************************************************************)
\* a % b of JavaScript (the sign of the dividend), b > 0.
JsRem(a, b) == IF a >= 0 THEN a % b ELSE -((-a) % b)

Abs(a) == IF a < 0 THEN -a ELSE a

Min(a, b) == IF a < b THEN a ELSE b

\* Array.prototype.indexOf, 0-based, -1 when absent.
IndexOf(arr, s) ==
  IF \E i \in 1..Len(arr) : arr[i] = s
  THEN (CHOOSE i \in 1..Len(arr) :
          arr[i] = s /\ \A j \in 1..(i - 1) : arr[j] # s) - 1
  ELSE -1

\* String.prototype.charAt(0): the first character, '' of the empty string.
CharAt0(s) == IF Len(s) > 0 THEN << s[1] >> ELSE << >>

\* String.prototype.includes('#').
IncludesSharp(s) == \E i \in 1..Len(s) : s[i] = "#"

\* Object spread {...prev, ...next}.
Merge(prev, next) ==
  [k \in (DOMAIN prev) \cup (DOMAIN next) |->
     IF k \in DOMAIN next THEN next[k] ELSE prev[k]]

(***************************************************************************)
(* The frame of a tick: the analyser's time-domain buffer, and what the    *)
(* period search of the pitch detector returns on it when the silence      *)
(* guard lets it run (the search itself is not unfolded here: its result   *)
(* is an input, any pitch the detector's range filter lets through).       *)
(***************************************************************************)
\* analyser.fftSize, which is bufferLength and the length of dataArray.
fftSize == 2048

numBars == 32

\* getFloatTimeDomainData: the buffers a tick may see.  "zero" is silence;
\* the others are square waves of period 100 samples: "tone" of amplitude
\* 0.3, "faint" of 0.012 (between the two silence thresholds) and "quiet"
\* of 0.005 (below both).
BufferNames == {"zero", "quiet", "faint", "tone"}

\* The amplitude of a buffer, in thousandths.
Amplitude(b) ==
  CASE b = "zero" -> 0
    [] b = "quiet" -> 5
    [] b = "faint" -> 12
    [] OTHER -> 300

dataArray(b) ==
  [i \in 0..(fftSize - 1) |->
     IF (i \div 50) % 2 = 0 THEN Amplitude(b) ELSE -Amplitude(b)]

\* The detected pitches of the main specification, in cents above C0:
\*   4552  A#3 - 48 cents (227 Hz)     5700  A4 exact (440 Hz)
\*   6235  D5 + 35 cents (599 Hz)
Pitches == {4552, 5700, 6235}

\* The twelve notes of octave 4, exact: C4 (262 Hz) .. B4 (494 Hz).
NotePitches == { 100 * h : h \in 48..59 }

FramesOf(pitches) ==
  { [buffer |-> "zero", found |-> -1] }
    \cup { [buffer |-> "tone", found |-> p] : p \in pitches \cup {-1} }

Frames == FramesOf(Pitches)

NoteFrames == { [buffer |-> "tone", found |-> p] : p \in NotePitches }

\* Frames of low level in which the period search would find a pitch.
LowFrames ==
  { [buffer |-> b, found |-> p] : b \in {"quiet", "faint"}, p \in Pitches }

RECURSIVE SumAbs(_, _, _)
\* sum of |d[i]| for i = from .. from + n - 1
SumAbs(d, from, n) ==
  IF n <= 0 THEN 0 ELSE Abs(d[from + n - 1]) + SumAbs(d, from, n - 1)

RECURSIVE SumSq(_, _, _)
SumSq(d, from, n) ==
  IF n <= 0 THEN 0
  ELSE d[from + n - 1] * d[from + n - 1] + SumSq(d, from, n - 1)

RECURSIVE SumBlocks(_, _, _, _)
\* Op summed over the whole buffer, block by block.
SumBlocks(d, len, from, sq) ==
  IF from >= len THEN 0
  ELSE LET n == Min(64, len - from)
       IN  (IF sq THEN SumSq(d, from, n) ELSE SumAbs(d, from, n))
             + SumBlocks(d, len, from + n, sq)

\* calculateAudioLevels: the height of one bar, 5 + min(50, floor(average *
\* 150)) with average = sum / segmentLength; sum in thousandths.  The
\* height is a fraction of denominator 1, or NaN when segmentLength is 0
\* (0 / 0, which Math.floor, Math.min and + hand on).
heightOf(sum, segmentLength) ==
  IF segmentLength = 0 THEN [num |-> sum, den |-> 0]
  ELSE [num |-> 5 + Min(50, (sum * 150) \div (segmentLength * 1000)),
        den |-> 1]

\* calculateAudioLevels: 32 heights.
calculateAudioLevels(d, bufferLength) ==
  LET segmentLength == bufferLength \div numBars
  IN  [i \in 1..numBars |->
         heightOf(SumAbs(d, (i - 1) * segmentLength, segmentLength),
                  segmentLength)]

\* The sample indices calculateAudioLevels reads: startIndex + j.
readIndices(bufferLength) ==
  LET segmentLength == bufferLength \div numBars
  IN  { (i - 1) * segmentLength + j :
          i \in 1..numBars, j \in 0..(segmentLength - 1) }

\* rms < 0.015 (amdf, yin) or rms < 0.01 (simple, basic; basic also asks
\* the mean absolute sample to reach 0.01): the silence guard, squared and
\* in millionths.
silent(im, d, bufferLength) ==
  LET sq == SumBlocks(d, bufferLength, 0, TRUE)
      ab == SumBlocks(d, bufferLength, 0, FALSE)
  IN  CASE im \in {"amdf", "yin"} -> sq < 225 * bufferLength
        [] im = "simple" -> sq < 100 * bufferLength
        [] OTHER -> ab < 10 * bufferLength \/ sq < 100 * bufferLength

\* Per buffer, computed once: the heights of a buffer of fftSize samples,
\* which are all numbers.
LevelsOf ==
  [b \in BufferNames |->
     [i \in 1..numBars |-> calculateAudioLevels(dataArray(b), fftSize)[i].num]]

SilentOf ==
  [im \in Impls |-> [b \in BufferNames |-> silent(im, dataArray(b), fftSize)]]

\* Variant without the silence guard: the search's result as it is.
detectPitchUnguarded(im, frame) == frame.found

\* detectPitch / findDominantFrequency: -1 on silence, else the search's result.
detectPitch(im, frame) ==
  IF SilentOf[im][frame.buffer] THEN -1 ELSE frame.found

(***************************************************************************)
(* Note mapper.  x is the pitch in cents above C0.                         *)
(***************************************************************************)
\* Math.round(exactHalfSteps): halves round up.
RoundHalfSteps(x) == (x + 50) \div 100

\* amdf revision: no note stabilizer on the path; the index is clamped.
frequencyToNote1(x) ==
  LET halfSteps == RoundHalfSteps(x)
      noteIndex == JsRem(halfSteps, 12)
      safeNoteIndex == IF noteIndex < 0 THEN 0
                       ELSE IF noteIndex >= Len(WESTERN_NOTES)
                            THEN Len(WESTERN_NOTES) - 1
                            ELSE noteIndex
  IN  [note |-> WESTERN_NOTES[safeNoteIndex + 1],
       cents |-> x - 100 * halfSteps,
       octave |-> halfSteps \div 12]

\* Variant of the A4-anchored mapper whose octave is counted from A.
getMusicalNoteSimpleFromA(x) ==
  LET halfStepsFromA4 == RoundHalfSteps(x) - 57
      rem == JsRem(halfStepsFromA4 + 9, 12)
      noteIndex == IF rem < 0 THEN rem + 12 ELSE rem
  IN  [note |-> WESTERN_NOTES[noteIndex + 1],
       cents |-> Abs(x - 100 * RoundHalfSteps(x)),
       octave |-> (halfStepsFromA4 + 12 * 4) \div 12]

\* simple: anchored at A4 (57 half steps above C0); cents is the magnitude.
getMusicalNoteSimple(x) ==
  LET halfStepsFromA4 == RoundHalfSteps(x) - 57
      rem == JsRem(halfStepsFromA4 + 9, 12)
      noteIndex == IF rem < 0 THEN rem + 12 ELSE rem
  IN  [note |-> WESTERN_NOTES[noteIndex + 1],
       cents |-> Abs(x - 100 * RoundHalfSteps(x)),
       octave |-> (halfStepsFromA4 + 9 + 12 * 4) \div 12]

\* basic: anchored at C0, no clamp.
getMusicalNoteBasic(x) ==
  LET roundedHalfSteps == RoundHalfSteps(x)
  IN  [note |-> WESTERN_NOTES[JsRem(roundedHalfSteps, 12) + 1],
       cents |-> x - 100 * roundedHalfSteps,
       octave |-> roundedHalfSteps \div 12]

(***************************************************************************)
(* Note stabilizer (yin revision).  st is the processor's stabilizer       *)
(* state, t is Date.now(); the result carries the returned note, the       *)
(* return statement reached (path: "reset" the first, "hold" the second,   *)
(* "compare" the last) and the fields as the call leaves them.             *)
(***************************************************************************)
stableThreshold == 30

stabilityDelay == 50

\* The 300 of "now - this.lastNoteTimestamp > 300".
noteResetWindow == 300

\* Variant: the reset branch returns the note but leaves the held octave.
getStableNoteKeepsOctave(note, cents, octave, st, t) ==
  IF st.lastNote = << >> \/ t - st.lastNoteTimestamp > noteResetWindow
  THEN [note |-> note, cents |-> cents, octave |-> octave, path |-> "reset",
        lastNote |-> note, lastOctave |-> st.lastOctave,
        lastNoteTimestamp |-> t]
  ELSE IF t - st.lastNoteTimestamp < stabilityDelay
  THEN [note |-> st.lastNote, cents |-> cents, octave |-> st.lastOctave,
        path |-> "hold",
        lastNote |-> st.lastNote, lastOctave |-> st.lastOctave,
        lastNoteTimestamp |-> st.lastNoteTimestamp]
  ELSE [note |-> IF Abs(cents) > stableThreshold THEN note ELSE st.lastNote,
        cents |-> cents,
        octave |-> IF Abs(cents) > stableThreshold
                   THEN octave ELSE st.lastOctave,
        path |-> "compare",
        lastNote |-> IF Abs(cents) > stableThreshold
                     THEN note ELSE st.lastNote,
        lastOctave |-> IF Abs(cents) > stableThreshold
                       THEN octave ELSE st.lastOctave,
        lastNoteTimestamp |-> t]

getStableNote(note, cents, octave, st, t) ==
  IF st.lastNote = << >> \/ t - st.lastNoteTimestamp > noteResetWindow
  THEN [note |-> note, cents |-> cents, octave |-> octave, path |-> "reset",
        lastNote |-> note, lastOctave |-> octave, lastNoteTimestamp |-> t]
  ELSE IF t - st.lastNoteTimestamp < stabilityDelay
  THEN [note |-> st.lastNote, cents |-> cents, octave |-> st.lastOctave,
        path |-> "hold",
        lastNote |-> st.lastNote, lastOctave |-> st.lastOctave,
        lastNoteTimestamp |-> st.lastNoteTimestamp]
  ELSE LET upd == Abs(cents) > stableThreshold
           n == IF upd THEN note ELSE st.lastNote
           o == IF upd THEN octave ELSE st.lastOctave
       IN  [note |-> n, cents |-> cents, octave |-> o, path |-> "compare",
            lastNote |-> n, lastOctave |-> o, lastNoteTimestamp |-> t]

\* yin revision: the mapped note goes through getStableNote.
frequencyToNote2(x, st, t) ==
  LET halfSteps == RoundHalfSteps(x)
      noteIndex == JsRem(halfSteps, 12)
      correctedNoteIndex == IF noteIndex < 0 THEN 0
                            ELSE IF noteIndex >= Len(WESTERN_NOTES)
                                 THEN Len(WESTERN_NOTES) - 1
                                 ELSE noteIndex
  IN  getStableNote(WESTERN_NOTES[correctedNoteIndex + 1],
                    x - 100 * halfSteps, halfSteps \div 12, st, t)

(***************************************************************************)
(* Swar translators, each with its hold.  The result carries the returned  *)
(* swar, the swar computed from the note (closestSwar / currentSwar; ""    *)
(* when the call returns before computing one), the return statement       *)
(* reached (path: "default" a fallback, "hold" the held swar, "accept" the *)
(* last) and the two fields as the call leaves them.                       *)
(***************************************************************************)
\* The seven natural degrees: simpleSwarMapping / swarIndices, in key order.
swarIndices == << 0, 2, 4, 5, 7, 9, 11 >>

primarySwars == << "Sa", "Re", "Ga", "Ma", "Pa", "Dha", "Ni" >>

\* swarMapping of the yin revision, offsets 0..11 (komal as b, tivra as #).
swarMapping ==
  << "Sa", "Reb", "Re", "Gab", "Ga", "Ma", "Ma#", "Pa", "Dhab", "Dha",
     "Nib", "Ni" >>

RECURSIVE ClosestFromLast(_, _, _, _)
\* Variant of the loop in which an equal distance replaces the closest too.
ClosestFromLast(i, relativeIndex, closestSwar, minDistance) ==
  IF i > Len(swarIndices) THEN closestSwar
  ELSE LET distance == Min(Abs(relativeIndex - swarIndices[i]),
                           12 - Abs(relativeIndex - swarIndices[i]))
       IN  IF distance <= minDistance
           THEN ClosestFromLast(i + 1, relativeIndex, primarySwars[i],
                                distance)
           ELSE ClosestFromLast(i + 1, relativeIndex, closestSwar,
                                minDistance)

RECURSIVE ClosestFrom(_, _, _, _)
\* The loop over the natural degrees from entry i on: a strictly smaller
\* circular distance replaces the closest so far.
ClosestFrom(i, relativeIndex, closestSwar, minDistance) ==
  IF i > Len(swarIndices) THEN closestSwar
  ELSE LET distance == Min(Abs(relativeIndex - swarIndices[i]),
                           12 - Abs(relativeIndex - swarIndices[i]))
       IN  IF distance < minDistance
           THEN ClosestFrom(i + 1, relativeIndex, primarySwars[i], distance)
           ELSE ClosestFrom(i + 1, relativeIndex, closestSwar, minDistance)

closestSwarOf(relativeIndex) == ClosestFrom(1, relativeIndex, "Sa", 12)

swarStabilityDelay == 100

\* The 150 of "now - this.lastSwarTimestamp < 150" (yin revision).
swarHold2 == 150

\* simple.
stabilityThreshold == 100

\* basic: its stabilityDelay.
stabilityDelayBasic == 100

Default(swar, st) ==
  [swar |-> swar, computed |-> "", path |-> "default",
   lastSwar |-> st.lastSwar, lastSwarTimestamp |-> st.lastSwarTimestamp]

Hold(computed, st) ==
  [swar |-> st.lastSwar, computed |-> computed, path |-> "hold",
   lastSwar |-> st.lastSwar, lastSwarTimestamp |-> st.lastSwarTimestamp]

Accept(computed, t) ==
  [swar |-> computed, computed |-> computed, path |-> "accept",
   lastSwar |-> computed, lastSwarTimestamp |-> t]

\* Variant of the amdf translator without the hold: every call accepts.
westernToIndianSwar1NoHold(westernNote, selectedScale, st, t) ==
  LET scaleOffset == IndexOf(WESTERN_NOTES, CharAt0(selectedScale))
      baseIndex == IndexOf(WESTERN_NOTES, CharAt0(westernNote))
      noteIndex == IF IncludesSharp(westernNote)
                   THEN JsRem(baseIndex + 1, 12) ELSE baseIndex
      relativeIndex == JsRem(noteIndex - scaleOffset + 12, 12)
  IN  IF westernNote = << >> THEN Default("Sa", st)
      ELSE IF scaleOffset = -1 THEN Default("Sa", st)
      ELSE IF baseIndex = -1 THEN Default("Sa", st)
      ELSE Accept(closestSwarOf(relativeIndex), t)

\* amdf revision.
westernToIndianSwar1(westernNote, selectedScale, st, t) ==
  LET scaleOffset == IndexOf(WESTERN_NOTES, CharAt0(selectedScale))
      baseIndex == IndexOf(WESTERN_NOTES, CharAt0(westernNote))
      noteIndex == IF IncludesSharp(westernNote)
                   THEN JsRem(baseIndex + 1, 12) ELSE baseIndex
      relativeIndex == JsRem(noteIndex - scaleOffset + 12, 12)
      closestSwar == closestSwarOf(relativeIndex)
  IN  IF westernNote = << >> THEN Default("Sa", st)
      ELSE IF scaleOffset = -1 THEN Default("Sa", st)
      ELSE IF baseIndex = -1 THEN Default("Sa", st)
      ELSE IF t - st.lastSwarTimestamp < swarStabilityDelay /\ st.lastSwar # ""
      THEN Hold(closestSwar, st)
      ELSE Accept(closestSwar, t)

\* Variant of the yin translator without the adjustment for sharps.
westernToIndianSwar2NoSharp(westernNote, selectedScale, st, t) ==
  LET scaleOffset == IndexOf(WESTERN_NOTES, CharAt0(selectedScale))
      noteIndex == IndexOf(WESTERN_NOTES, CharAt0(westernNote))
      relativeIndex == JsRem(noteIndex - scaleOffset + 12, 12)
      currentSwar == swarMapping[relativeIndex + 1]
  IN  IF westernNote = << >> THEN Default("Sa", st)
      ELSE IF scaleOffset = -1 THEN Default(st.lastSwar, st)
      ELSE IF noteIndex = -1 THEN Default(st.lastSwar, st)
      ELSE IF t - st.lastSwarTimestamp < swarHold2 /\ st.lastSwar # ""
      THEN Hold(currentSwar, st)
      ELSE Accept(currentSwar, t)

\* yin revision.
westernToIndianSwar2(westernNote, selectedScale, st, t) ==
  LET scaleOffset == IndexOf(WESTERN_NOTES, CharAt0(selectedScale))
      baseIndex == IndexOf(WESTERN_NOTES, CharAt0(westernNote))
      noteIndex == IF IncludesSharp(westernNote)
                   THEN JsRem(baseIndex + 1, 12) ELSE baseIndex
      relativeIndex == JsRem(noteIndex - scaleOffset + 12, 12)
      currentSwar == swarMapping[relativeIndex + 1]
  IN  IF westernNote = << >> THEN Default("Sa", st)
      ELSE IF scaleOffset = -1 THEN Default(st.lastSwar, st)
      ELSE IF baseIndex = -1 THEN Default(st.lastSwar, st)
      ELSE IF t - st.lastSwarTimestamp < swarHold2 /\ st.lastSwar # ""
      THEN Hold(currentSwar, st)
      ELSE Accept(currentSwar, t)

\* simple: the sharp is dropped (indexOf of the first character only).
getIndianSwarSimple(westernNote, selectedScale, st, t) ==
  LET scaleIndex == IndexOf(WESTERN_NOTES, CharAt0(selectedScale))
      westernIndex == IndexOf(WESTERN_NOTES, CharAt0(westernNote))
      relativeIndex == JsRem(westernIndex - scaleIndex + 12, 12)
      swar == closestSwarOf(relativeIndex)
  IN  IF t - st.lastSwarTimestamp < stabilityThreshold /\ st.lastSwar # ""
      THEN Hold(swar, st)
      ELSE Accept(swar, t)

\* basic: the hold is tested first; lastNote / lastNoteTime hold the swar.
getIndianSwarBasic(westernNote, selectedScale, st, t) ==
  LET scaleIndex == IndexOf(WESTERN_NOTES, CharAt0(selectedScale))
      noteIndex == IndexOf(WESTERN_NOTES, CharAt0(westernNote))
      relativePosition == JsRem(noteIndex - scaleIndex + 12, 12)
      closestSwar == closestSwarOf(relativePosition)
  IN  IF t - st.lastSwarTimestamp < stabilityDelayBasic /\ st.lastSwar # ""
      THEN Hold("", st)
      ELSE IF noteIndex = -1 THEN Default("Sa", st)
      ELSE Accept(closestSwar, t)

(***************************************************************************)
(* analyzeFrequency and the body of processAudio.                          *)
(***************************************************************************)
\* Variant of the tiers on the signed deviation.
clarityOfSigned(cents) ==
  IF cents < 25 THEN "clear"
  ELSE IF cents < 45 THEN "somewhat" ELSE "unclear"

\* |cents| < 25 clear, < 45 somewhat, else unclear.
clarityOf(cents) ==
  IF Abs(cents) < 25 THEN "clear"
  ELSE IF Abs(cents) < 45 THEN "somewhat" ELSE "unclear"

\* The "clean" cut of the yin revision, which reports no clarity.
cleanCents2 == 30

saptakOf(octave) ==
  IF octave <= 3 THEN "Mandra" ELSE IF octave = 4 THEN "Madhya" ELSE "Taar"

\* What one valid tick computes from the detected pitch x at time t in
\* stabilizer state st: the raw note, the note and octave that go on, the
\* swar call's result, and the update it delivers (without audioLevels).
\* The note mapper of the revision.
mapNote(im, x) ==
  CASE im = "simple" -> getMusicalNoteSimple(x)
    [] im = "basic" -> getMusicalNoteBasic(x)
    [] OTHER -> frequencyToNote1(x)

\* The note handed to the translator: only the yin revision stabilizes it.
stableNote(im, x, raw, st, t) ==
  IF im = "yin" THEN frequencyToNote2(x, st, t)
  ELSE [note |-> raw.note, cents |-> raw.cents, octave |-> raw.octave,
        path |-> "", lastNote |-> st.lastNote, lastOctave |-> st.lastOctave,
        lastNoteTimestamp |-> st.lastNoteTimestamp]

\* The swar translator of the revision.
indianSwar(im, westernNote, selectedScale, st, t) ==
  CASE im = "amdf" -> westernToIndianSwar1(westernNote, selectedScale, st, t)
    [] im = "yin" -> westernToIndianSwar2(westernNote, selectedScale, st, t)
    [] im = "simple" -> getIndianSwarSimple(westernNote, selectedScale, st, t)
    [] OTHER -> getIndianSwarBasic(westernNote, selectedScale, st, t)

\* The update processAudio builds from the analysis (audioLevels apart):
\* the yin revision has no clarity field and its own isClean.
\* Variant of the update of a valid tick that leaves currentSaptak out.
analysisUpdateNoSaptak(im, x, n, swar) ==
  ("currentFrequency" :> x) @@ ("currentSwar" :> swar)
    @@ ("currentOctave" :> n.octave)
    @@ (IF im = "yin"
        THEN ("isNoteClean" :> (Abs(n.cents) < cleanCents2))
        ELSE ("isNoteClean" :> (clarityOf(n.cents) = "clear"))
               @@ ("clarity" :> clarityOf(n.cents)))

\* The update of a valid tick (without audioLevels).
analysisUpdate(im, x, n, swar) ==
  ("currentFrequency" :> x) @@ ("currentSwar" :> swar)
    @@ ("currentOctave" :> n.octave)
    @@ ("currentSaptak" :> saptakOf(n.octave))
    @@ (IF im = "yin"
        THEN ("isNoteClean" :> (Abs(n.cents) < cleanCents2))
        ELSE ("isNoteClean" :> (clarityOf(n.cents) = "clear"))
               @@ ("clarity" :> clarityOf(n.cents)))

analyzeFrequency(im, x, selectedScale, st, t) ==
  LET raw == mapNote(im, x)
      n == stableNote(im, x, raw, st, t)
      sw == indianSwar(im, n.note, selectedScale, st, t)
  IN  [raw |-> raw, n |-> n, sw |-> sw,
       update |-> analysisUpdate(im, x, n, sw.swar)]

processingInterval == 50

(***************************************************************************)
(* State.                                                                  *)
(***************************************************************************)
VARIABLES
  impl,               \* the processor revision in use
  now,                \* Date.now()
  isProcessing, audioContext, stream, microphone, analyser, animationFrame,
  frames,             \* requestAnimationFrame callbacks scheduled, not yet run
  starting,           \* startProcessing calls suspended at getUserMedia
  pauses,             \* long pauses taken (long-pause specification only)
  selectedScale,      \* currentState.selectedScale
  lastProcessingTime, \* lastProcessTime of simple
  lastNote, lastOctave, lastNoteTimestamp,
  lastSwar,           \* lastNote of basic
  lastSwarTimestamp,  \* lastNoteTime of simple and basic
  audioState,         \* Home's state, every update merged into it
  updates,            \* the updates the last step delivered, in order
  step,               \* the last step: the operation and what it computed
  calc,               \* the last call of a function applied on its own
  hist                \* the swar stream: the last swar a tick emitted, when
                      \* it last changed, and whether no tick has emitted
                      \* one since the last stop

vars ==
  << impl, now, isProcessing, audioContext, stream, microphone, analyser,
     animationFrame, frames, starting, pauses, selectedScale,
     lastProcessingTime, lastNote, lastOctave, lastNoteTimestamp, lastSwar,
     lastSwarTimestamp, audioState, updates, step, calc, hist >>

resources == << audioContext, stream, microphone, analyser >>

stabilizer ==
  << lastNote, lastOctave, lastNoteTimestamp, lastSwar, lastSwarTimestamp >>

\* The stabilizer fields as one record.
Stab ==
  [lastNote |-> lastNote, lastOctave |-> lastOctave,
   lastNoteTimestamp |-> lastNoteTimestamp,
   lastSwar |-> lastSwar, lastSwarTimestamp |-> lastSwarTimestamp]

\* A step that runs no tick body.  A step that does fills in: the buffer and
\* the detected frequency; the note the mapper computes from it (note,
\* octave, cents) and the one that goes on to the translator (rnote,
\* roctave, after getStableNote where there is one, with its path); the
\* swar emitted, the swar computed and the translator's path; the scale in
\* force; the note and swar held before the tick.
Op(name) ==
  [op |-> name, processed |-> FALSE, buffer |-> "", frequency |-> -1,
   note |-> << >>, octave |-> 0, cents |-> 0,
   rnote |-> << >>, roctave |-> 0, notePath |-> "",
   swar |-> "", computed |-> "", swarPath |-> "",
   scale |-> << >>, heldNote |-> << >>, heldSwar |-> ""]

\* Home's initial audioState.
InitialAudioState ==
  [isListening |-> FALSE, selectedScale |-> << "C" >>, currentSwar |-> "Sa",
   currentOctave |-> 4, currentSaptak |-> "Madhya", currentFrequency |-> 0,
   isNoteClean |-> TRUE, clarity |-> "clear",
   audioLevels |-> [i \in 1..32 |-> 5]]

RECURSIVE MergeAll(_, _)
\* setAudioState(prev => ({...prev, ...newState})) for each update in order.
MergeAll(state, us) ==
  IF us = << >> THEN state ELSE MergeAll(Merge(state, Head(us)), Tail(us))

Init ==
  /\ impl \in Impls
  /\ now = PageLoad
  /\ isProcessing = FALSE
  /\ audioContext = FALSE
  /\ stream = FALSE
  /\ microphone = FALSE
  /\ analyser = FALSE
  /\ animationFrame = FALSE
  /\ frames = 0
  /\ starting = 0
  /\ pauses = 0
  /\ selectedScale = << "C" >>
  /\ lastProcessingTime = 0
  /\ lastNote = << >>
  /\ lastOctave = 4
  /\ lastNoteTimestamp = 0
  /\ lastSwar = IF impl = "basic" THEN "" ELSE "Sa"
  /\ lastSwarTimestamp = 0
  /\ audioState = InitialAudioState
  /\ updates = << >>
  /\ step = Op("init")
  /\ calc = [op |-> "none"]
  /\ hist = [swar |-> "", changedAt |-> -1, afterStop |-> FALSE]

(***************************************************************************)
(* processAudio: one run of the loop body on a frame, in a state in which  *)
(* isProcessing and analyser are set.  The result names the new values of  *)
(* the fields the run may write, the updates it delivers (none when the    *)
(* interval check skips the frame) and the step record.                    *)
(***************************************************************************)
\* The frame's part of the step record.
FrameStep(frame) ==
  [Op("frame") EXCEPT !.buffer = frame.buffer, !.scale = selectedScale,
                      !.heldNote = lastNote, !.heldSwar = lastSwar]

\* Variant of the else branch that clears the held note and swar.
noPitchClearsHeld(frame, frequency, processedAt) ==
  [lastProcessingTime |-> processedAt,
   stab |-> [lastNote |-> << >>, lastOctave |-> 4, lastNoteTimestamp |-> 0,
             lastSwar |-> "Sa", lastSwarTimestamp |-> 0],
   updates |-> << ("audioLevels" :> LevelsOf[frame.buffer])
                    @@ ("currentFrequency" :> 0) >>,
   step |-> [FrameStep(frame) EXCEPT !.processed = TRUE,
                                     !.frequency = frequency],
   hist |-> hist]

\* Variant of the else branch whose update repeats the held swar.
noPitchRepeatsSwar(frame, frequency, processedAt) ==
  [lastProcessingTime |-> processedAt,
   stab |-> Stab,
   updates |-> << ("audioLevels" :> LevelsOf[frame.buffer])
                    @@ ("currentFrequency" :> 0)
                    @@ ("currentSwar" :> lastSwar) >>,
   step |-> [FrameStep(frame) EXCEPT !.processed = TRUE,
                                     !.frequency = frequency],
   hist |-> hist]

\* Variant of the else branch that calls nothing back.
noPitchNoCallback(frame, frequency, processedAt) ==
  [lastProcessingTime |-> processedAt,
   stab |-> Stab,
   updates |-> << >>,
   step |-> [FrameStep(frame) EXCEPT !.processed = TRUE,
                                     !.frequency = frequency],
   hist |-> hist]

\* The else branch: no clear frequency detected.
noPitch(frame, frequency, processedAt) ==
  [lastProcessingTime |-> processedAt,
   stab |-> Stab,
   updates |-> << ("audioLevels" :> LevelsOf[frame.buffer])
                    @@ ("currentFrequency" :> 0) >>,
   step |-> [FrameStep(frame) EXCEPT !.processed = TRUE,
                                     !.frequency = frequency],
   hist |-> hist]

\* The then branch: frequency > 0, a the result of analyzeFrequency.
pitched(frame, frequency, processedAt, a) ==
  [lastProcessingTime |-> processedAt,
   stab |-> [lastNote |-> a.n.lastNote,
             lastOctave |-> a.n.lastOctave,
             lastNoteTimestamp |-> a.n.lastNoteTimestamp,
             lastSwar |-> a.sw.lastSwar,
             lastSwarTimestamp |-> a.sw.lastSwarTimestamp],
   updates |-> << a.update @@ ("audioLevels" :> LevelsOf[frame.buffer]) >>,
   step |-> [FrameStep(frame) EXCEPT !.processed = TRUE,
                                     !.frequency = frequency,
                                     !.note = a.raw.note,
                                     !.octave = a.raw.octave,
                                     !.cents = a.raw.cents,
                                     !.rnote = a.n.note,
                                     !.roctave = a.n.octave,
                                     !.notePath = a.n.path,
                                     !.swar = a.sw.swar,
                                     !.computed = a.sw.computed,
                                     !.swarPath = a.sw.path],
   hist |-> [swar |-> a.sw.swar,
             changedAt |-> IF a.sw.swar # hist.swar
                           THEN now ELSE hist.changedAt,
             afterStop |-> FALSE]]

\* Variant without the interval check: every frame is processed.
processAudioBodyEveryFrame(frame) ==
  LET throttled == FALSE
      frequency == detectPitch(impl, frame)
      processedAt == now
  IN  IF throttled /\ ~(now - lastProcessingTime >= processingInterval)
      THEN [lastProcessingTime |-> lastProcessingTime, stab |-> Stab,
            updates |-> << >>, step |-> FrameStep(frame), hist |-> hist]
      ELSE IF frequency > 0
           THEN pitched(frame, frequency, processedAt,
                        analyzeFrequency(impl, frequency, selectedScale,
                                         Stab, now))
           ELSE noPitch(frame, frequency, processedAt)

processAudioBody(frame) ==
  LET throttled == impl \in {"amdf", "simple"}
      frequency == detectPitch(impl, frame)
      processedAt == IF throttled THEN now ELSE lastProcessingTime
  IN  IF throttled /\ ~(now - lastProcessingTime >= processingInterval)
      THEN [lastProcessingTime |-> lastProcessingTime, stab |-> Stab,
            updates |-> << >>, step |-> FrameStep(frame), hist |-> hist]
      ELSE IF frequency > 0
           THEN pitched(frame, frequency, processedAt,
                        analyzeFrequency(impl, frequency, selectedScale,
                                         Stab, now))
           ELSE noPitch(frame, frequency, processedAt)

\* The assignments of a processAudio run r, after the updates before, as
\* the step op.
Processed(r, before, op) ==
  /\ step' = [r.step EXCEPT !.op = op]
  /\ lastProcessingTime' = r.lastProcessingTime
  /\ lastNote' = r.stab.lastNote
  /\ lastOctave' = r.stab.lastOctave
  /\ lastNoteTimestamp' = r.stab.lastNoteTimestamp
  /\ lastSwar' = r.stab.lastSwar
  /\ lastSwarTimestamp' = r.stab.lastSwarTimestamp
  /\ updates' = before \o r.updates
  /\ audioState' = MergeAll(audioState, before \o r.updates)
  /\ hist' = r.hist

\* A step that delivers the updates us and runs no tick.
Deliver(us) ==
  /\ updates' = us
  /\ audioState' = MergeAll(audioState, us)

(***************************************************************************)
(* Operations.                                                             *)
(***************************************************************************)
\* Bound of the clock of the session specification.
MaxSessionSteps == 2

\* Bound on the long pauses of the mapping specification.
MaxPauses == 1

\* Time passes: by one quantum up to the last instant, or (long pause) by
\* more than every hold and reset window at once.
Elapse(by, last) ==
  /\ now + by <= last
  /\ now' = now + by
  /\ step' = Op("elapse")
  /\ updates' = << >>
  /\ UNCHANGED << impl, calc, isProcessing, resources, animationFrame, frames,
                  starting, selectedScale, lastProcessingTime, stabilizer,
                  audioState, hist >>

\* startProcessing up to the await of getUserMedia.
startProcessing ==
  /\ starting < MaxStarts
  /\ step' = Op("start")
  /\ updates' = << >>
  /\ IF isProcessing
     THEN UNCHANGED << audioContext, starting >>
     ELSE audioContext' = TRUE /\ starting' = starting + 1
  /\ UNCHANGED << impl, calc, now, pauses, isProcessing, stream, microphone,
                  analyser, animationFrame, frames, selectedScale,
                  lastProcessingTime, stabilizer, audioState, hist >>

\* The update of the catch block.
ErrorUpdate ==
  LET u == ("isListening" :> FALSE) @@ ("currentSwar" :> "Error")
             @@ ("isNoteClean" :> FALSE)
  IN  IF impl \in {"simple", "basic"} THEN u @@ ("clarity" :> "unclear")
      ELSE u

\* getUserMedia resolves: the rest of the try block, with the first run of
\* processAudio on the frame the analyser then holds.  A context closed by
\* a stop in between makes createMediaStreamSource throw.
startResolved(frame) ==
  /\ starting > 0
  /\ starting' = starting - 1
  /\ stream' = TRUE
  /\ IF audioContext
     THEN /\ microphone' = TRUE
          /\ analyser' = TRUE
          /\ isProcessing' = TRUE
          /\ Processed(processAudioBody(frame),
                       << "isListening" :> TRUE >>, "resolve")
          /\ animationFrame' = TRUE
          /\ frames' = frames + 1
     ELSE /\ Deliver(<< ErrorUpdate >>)
          /\ step' = Op("throw")
          /\ UNCHANGED << microphone, analyser, isProcessing, animationFrame,
                          frames, lastProcessingTime, stabilizer, hist >>
  /\ UNCHANGED << impl, calc, now, pauses, audioContext, selectedScale >>

\* getUserMedia rejects: the catch block.
startRejected ==
  /\ starting > 0
  /\ starting' = starting - 1
  /\ Deliver(<< ErrorUpdate >>)
  /\ step' = Op("reject")
  /\ UNCHANGED << impl, calc, now, pauses, isProcessing, resources, animationFrame,
                  frames, selectedScale, lastProcessingTime, stabilizer,
                  hist >>

stopProcessing ==
  /\ IF ~isProcessing
     THEN /\ updates' = << >>
          /\ UNCHANGED << isProcessing, resources, animationFrame, frames,
                          audioState, hist >>
     ELSE /\ frames' = IF animationFrame /\ frames > 0
                       THEN frames - 1 ELSE frames
          /\ animationFrame' = FALSE
          /\ stream' = FALSE
          /\ audioContext' = FALSE
          /\ microphone' = FALSE
          /\ analyser' = FALSE
          /\ isProcessing' = FALSE
          /\ Deliver(<< "isListening" :> FALSE >>)
          /\ hist' = [hist EXCEPT !.afterStop = TRUE]
  /\ step' = Op("stop")
  /\ UNCHANGED << impl, calc, now, pauses, starting, selectedScale,
                  lastProcessingTime, stabilizer >>

\* Home.handleScaleChange: updateScale on the processor, then setAudioState.
updateScale(scale) ==
  /\ selectedScale' = scale
  /\ audioState' = [audioState EXCEPT !.selectedScale = scale]
  /\ updates' = << >>
  /\ step' = [Op("scale") EXCEPT !.scale = scale]
  /\ UNCHANGED << impl, calc, now, pauses, isProcessing, resources, animationFrame,
                  frames, starting, lastProcessingTime, stabilizer, hist >>

\* A scheduled animation frame runs processAudio.
processAudio(frame) ==
  /\ frames > 0
  /\ IF ~isProcessing \/ ~analyser
     THEN /\ frames' = frames - 1
          /\ step' = Op("return")
          /\ updates' = << >>
          /\ UNCHANGED << animationFrame, lastProcessingTime, stabilizer,
                          audioState, hist >>
     ELSE /\ Processed(processAudioBody(frame), << >>, "frame")
          /\ animationFrame' = TRUE
          /\ frames' = frames
  /\ UNCHANGED << impl, calc, now, pauses, isProcessing, resources, starting,
                  selectedScale >>

(***************************************************************************)
(* Specifications.                                                         *)
(***************************************************************************)
\* The keys offered in the single-session and session specifications.
Roots == { << "C" >>, << "C", "#" >>, << "A" >> }

Advance == Elapse(Quantum, PageLoad + MaxSteps * Quantum) /\ UNCHANGED pauses

Start == startProcessing

Resolve == \E frame \in Frames : startResolved(frame)

Scale == \E scale \in Roots : updateScale(scale)

Tick == \E frame \in Frames : processAudio(frame)

\* One listening session: the page is opened, a key may be chosen at any
\* time, listening starts once and frames are processed as time passes.
Next == Advance \/ Start \/ Resolve \/ Scale \/ Tick

Spec == Init /\ [][Next]_vars

AdvanceSession ==
  Elapse(Quantum, PageLoad + MaxSessionSteps * Quantum) /\ UNCHANGED pauses

Reject == startRejected

Stop == stopProcessing

\* Sessions started, refused, stopped and started again, on a short clock.
NextSession ==
  AdvanceSession \/ Start \/ Resolve \/ Reject \/ Stop \/ Scale \/ Tick

SpecSession == Init /\ [][NextSession]_vars

Pause ==
  /\ pauses < MaxPauses
  /\ pauses' = pauses + 1
  /\ Elapse(noteResetWindow + Quantum,
            PageLoad + MaxPauses * (noteResetWindow + Quantum))

\* The key is chosen before listening starts (a change while listening is
\* part of the single-session specification).
ScaleMap ==
  /\ ~isProcessing
  /\ starting = 0
  /\ \E scale \in SCALES : updateScale(scale)

ResolveMap == \E frame \in NoteFrames : startResolved(frame)

TickMap == \E frame \in NoteFrames : processAudio(frame)

\* Every key against every note of one octave: the key is chosen, listening
\* starts, and frames arrive back to back or after a pause longer than
\* every window.
NextMap == Pause \/ Start \/ ResolveMap \/ ScaleMap \/ TickMap

\* The two revisions of the processor proper.
InitMap == Init /\ impl \in {"amdf", "yin"}

SpecMap == InitMap /\ [][NextMap]_vars

\* The three processors whose translator takes the nearest natural degree.
InitSeven == Init /\ impl \in {"amdf", "simple", "basic"}

SpecSeven == InitSeven /\ [][NextMap]_vars

\* Strings that are no key of SCALES: no note name, and a flat.
OtherRoots == { << "H" >>, << "D", "b" >> }

ScaleAny == \E scale \in Roots \cup OtherRoots : updateScale(scale)

ResolveAny == \E frame \in Frames \cup LowFrames : startResolved(frame)

TickAny == \E frame \in Frames \cup LowFrames : processAudio(frame)

\* One session on a short clock in which updateScale is called with any
\* string and the buffers are of any level.
NextAny == AdvanceSession \/ Start \/ ResolveAny \/ ScaleAny \/ TickAny

SpecAny == Init /\ [][NextAny]_vars

\* A timestamp seen one Quantum later; 0 and below stand for "long ago".
Earlier(timestamp) ==
  IF timestamp - Quantum > 0 THEN timestamp - Quantum
  ELSE IF timestamp < 0 THEN timestamp ELSE 0

\* Time passes between two frames, by one Quantum at most, without end: up
\* to the horizon the clock moves on; at the horizon the clock is left where
\* it is and every stored timestamp moves back instead, which keeps every
\* difference now - timestamp that is within the windows of the code (300 ms
\* at most, the horizon being further than that from 0).
AdvanceSustain ==
  /\ step.op \in {"frame", "resolve"}
  /\ IF now + Quantum <= PageLoad + MaxSteps * Quantum
     THEN /\ now' = now + Quantum
          /\ UNCHANGED << lastProcessingTime, lastNoteTimestamp,
                          lastSwarTimestamp, hist >>
     ELSE /\ now' = now
          /\ lastProcessingTime' = Earlier(lastProcessingTime)
          /\ lastNoteTimestamp' = Earlier(lastNoteTimestamp)
          /\ lastSwarTimestamp' = Earlier(lastSwarTimestamp)
          /\ hist' = [hist EXCEPT !.changedAt = Earlier(hist.changedAt)]
  /\ step' = Op("elapse")
  /\ updates' = << >>
  /\ UNCHANGED << impl, calc, isProcessing, resources, animationFrame, frames,
                  starting, pauses, selectedScale, lastNote, lastOctave,
                  lastSwar, audioState >>

InitSustain == Init /\ impl = "yin"

\* A session of the yin revision that goes on for ever, the frames at most
\* one Quantum apart.
NextSustain == AdvanceSustain \/ Start \/ Resolve \/ Tick

SpecSustain ==
  /\ InitSustain
  /\ [][NextSustain]_vars
  /\ WF_vars(Tick)
  /\ WF_vars(AdvanceSustain)

\* A clock of half the processing interval, for the throttled processors.
HalfQuantum == 25

MaxClockSteps == 6

AdvanceClock ==
  Elapse(HalfQuantum, PageLoad + MaxClockSteps * HalfQuantum)
    /\ UNCHANGED pauses

InitClock == Init /\ impl \in {"amdf", "simple"}

\* Frames arriving faster than the processing interval.
NextClock == AdvanceClock \/ Start \/ Resolve \/ Stop \/ Scale \/ Tick

SpecClock == InitClock /\ [][NextClock]_vars

(***************************************************************************)
(* The end of the pitch estimators: from the lag the search selected to    *)
(* the value autoCorrelate returns.  A frequency is here an exact          *)
(* fraction num / den (den >= 0) of hertz; den = 0 stands for the          *)
(* non-numbers of the arithmetic: 0 / 0 is NaN, n / 0 is Infinity with the *)
(* sign of n.  Comparisons are those of the language: false on NaN.        *)
(***************************************************************************)
\* num / den with the sign carried by num.
Q(num, den) ==
  IF den < 0 THEN [num |-> -num, den |-> -den] ELSE [num |-> num, den |-> den]

IsNaN(q) == q.den = 0 /\ q.num = 0

\* q < k and q > k for an integer k.
QLt(q, k) == IF q.den > 0 THEN q.num < k * q.den ELSE q.num < 0

QGt(q, k) == IF q.den > 0 THEN q.num > k * q.den ELSE q.num > 0

\* "return -1".
NoPitchValue == Q(-1, 1)

\* audioContext.sampleRate.
SampleRates == {44100, 48000}

\* amdf revision: minPeriod and maxPeriod of the search (maxFreq 2400,
\* minFreq 200).
minPeriodOf(sampleRate) == sampleRate \div 2400

maxPeriodOf(sampleRate) == sampleRate \div 200

\* The periods a valley of the AMDF can have: index 1 .. length - 2.
ValleyPeriods(sampleRate) ==
  (minPeriodOf(sampleRate) + 1) .. (maxPeriodOf(sampleRate) - 1)

\* Variant of the end of the amdf estimator: no correction factor and the
\* range 200 .. 2200.
autoCorrelateEnd1Plain(sampleRate, period) ==
  IF period = 0 THEN NoPitchValue
  ELSE IF QLt(Q(sampleRate, period), 200) \/ QGt(Q(sampleRate, period), 2200)
       THEN NoPitchValue
       ELSE Q(sampleRate, period)

\* amdf revision, from "No clear periodicity found" on: period is that of
\* the deepest valley, 0 when there is no valley.
autoCorrelateEnd1(sampleRate, period) ==
  IF period = 0 THEN NoPitchValue
  ELSE LET correctedFreq == Q(sampleRate * 101, period * 100)
       IN  IF QLt(correctedFreq, 220) \/ QGt(correctedFreq, 2200)
           THEN NoPitchValue
           ELSE correctedFreq

\* yin revision: yinBuffer.length = bufferSize / 2.
yinLength == fftSize \div 2

\* yin revision, step 4: minTau + (s2 - s0) / (2 * (2 * s1 - s0 - s2)), for
\* s = << yinBuffer[minTau - 1], yinBuffer[minTau], yinBuffer[minTau + 1] >>
\* in thousandths.
betterTauOf(minTau, s) ==
  IF minTau > 0 /\ minTau < yinLength - 1
  THEN LET d == 2 * (2 * s[2] - s[1] - s[3])
       IN  IF d = 0
           THEN Q(s[3] - s[1], 0)
           ELSE Q(minTau * d + (s[3] - s[1]), d)
  ELSE Q(minTau, 1)

\* sampleRate / betterTau.
QuotientBy(sampleRate, tau) ==
  IF IsNaN(tau) THEN Q(0, 0)
  ELSE IF tau.den = 0 THEN Q(0, 1)
  ELSE Q(sampleRate * tau.den * (IF tau.num < 0 THEN -1 ELSE 1),
         IF tau.num < 0 THEN -tau.num ELSE tau.num)

\* Variant of the end of the yin estimator without the range filter.
autoCorrelateEnd2NoFilter(sampleRate, minTau, s) ==
  IF minTau = 0 THEN NoPitchValue
  ELSE QuotientBy(sampleRate, betterTauOf(minTau, s))

\* yin revision, from "Still nothing good found" on: minTau is the lag the
\* two searches selected, 0 when none.
autoCorrelateEnd2(sampleRate, minTau, s) ==
  IF minTau = 0 THEN NoPitchValue
  ELSE LET resultFreq == QuotientBy(sampleRate, betterTauOf(minTau, s))
       IN  IF QLt(resultFreq, 200) \/ QGt(resultFreq, 2200)
           THEN NoPitchValue
           ELSE resultFreq

\* processAudio: the currentFrequency of the update, by "frequency > 0".
reportedFrequency(frequency) ==
  IF QGt(frequency, 0) THEN frequency ELSE Q(0, 1)

\* The lags of the yin search tried here, and the values around the lag:
\* strict minima (the first search), a flat and a slope (the second).
Lags == {0, 2, 19, 20, 21, 22, 100, 200, 220, 221, 240, 241, 1023}

Neighbourhoods ==
  { << 100, 50, 100 >>, << 1000, 50, 100 >>, << 100, 50, 1000 >>,
    << 1000, 1000, 1000 >>, << 1000, 1100, 1200 >>, << 1000, 550, 0 >>,
    << 0, 550, 1000 >> }

\* Everything but calc.
others ==
  << impl, now, isProcessing, audioContext, stream, microphone, analyser,
     animationFrame, frames, starting, pauses, selectedScale,
     lastProcessingTime, lastNote, lastOctave, lastNoteTimestamp, lastSwar,
     lastSwarTimestamp, audioState, updates, step, hist >>

\* The amdf estimator ends on a valley (or none) and the tick reports.
Estimate1(sampleRate, period) ==
  /\ impl = "amdf"
  /\ calc' = [op |-> "estimate", sampleRate |-> sampleRate, lag |-> period,
              frequency |-> autoCorrelateEnd1(sampleRate, period),
              currentFrequency |->
                reportedFrequency(autoCorrelateEnd1(sampleRate, period))]
  /\ UNCHANGED others

\* The yin estimator ends on a lag (or none) and the tick reports.
Estimate2(sampleRate, minTau, s) ==
  /\ impl = "yin"
  /\ calc' = [op |-> "estimate", sampleRate |-> sampleRate, lag |-> minTau,
              frequency |-> autoCorrelateEnd2(sampleRate, minTau, s),
              currentFrequency |->
                reportedFrequency(autoCorrelateEnd2(sampleRate, minTau, s))]
  /\ UNCHANGED others

EstimateAmdf ==
  \E sampleRate \in SampleRates :
    \E period \in ValleyPeriods(sampleRate) \cup {0} :
      Estimate1(sampleRate, period)

EstimateYin ==
  \E sampleRate \in SampleRates, minTau \in Lags, s \in Neighbourhoods :
    Estimate2(sampleRate, minTau, s)

\* Pitches in cents above C0 around the range 200 .. 2200 Hz
\* (4335 .. 8486): every quarter of a half step and the last cent before
\* each rounding boundary.
CalcPitches == { x \in 4200..8600 : x % 25 = 0 \/ x % 100 = 49 }

\* The three note mappers applied to one pitch.
MapNote(x) ==
  /\ calc' = [op |-> "note", x |-> x,
              c0 |-> frequencyToNote1(x),
              a4 |-> getMusicalNoteSimple(x),
              basic |-> getMusicalNoteBasic(x)]
  /\ UNCHANGED others

MapNotes == \E x \in CalcPitches : MapNote(x)

\* Buffer lengths and sample levels (thousandths) calculateAudioLevels is
\* applied to.
Lengths == {0, 16, 31, 32, 33, 63, 64, 70, 96}

Levels == {0, 5, 300, 1000}

\* A buffer of n samples: level a on every third sample, half of it and
\* negative on the others.
samplesOf(n, a) ==
  [i \in 0..(n - 1) |-> IF i % 3 = 0 THEN a ELSE -(a \div 2)]

\* calculateAudioLevels on a buffer of bufferLength samples.
MeterLevels(bufferLength, a) ==
  /\ calc' = [op |-> "levels", bufferLength |-> bufferLength, level |-> a,
              levels |-> calculateAudioLevels(samplesOf(bufferLength, a),
                                              bufferLength),
              reads |-> readIndices(bufferLength)]
  /\ UNCHANGED others

Meter == \E bufferLength \in Lengths, a \in Levels : MeterLevels(bufferLength, a)

\* amdf revision on a sine of f Hz.  amdf[period] is the mean of
\* |buffer[i] - buffer[i + period]|, for a sine 2 * |sin(pi * period * f /
\* sampleRate)| times the mean of a |cos|, which over the buffer is the same
\* for every period: amdf orders the periods as the distance of period * f /
\* sampleRate to the nearest integer does, counted here in units of
\* 1 / sampleRate.
sineAmdf(sampleRate, f, period) ==
  Min((period * f) % sampleRate, sampleRate - ((period * f) % sampleRate))

\* The valleys: amdf[i] < amdf[i - 1] and amdf[i] < amdf[i + 1].
sineValleys(sampleRate, f) ==
  { period \in ValleyPeriods(sampleRate) :
      /\ sineAmdf(sampleRate, f, period) < sineAmdf(sampleRate, f, period - 1)
      /\ sineAmdf(sampleRate, f, period) < sineAmdf(sampleRate, f, period + 1) }

\* valleys.sort(by value)[0]: the deepest valley, the first of equals; 0
\* when there is none.
deepestValley(sampleRate, f) ==
  LET valleys == sineValleys(sampleRate, f)
  IN  IF valleys = {} THEN 0
      ELSE CHOOSE period \in valleys :
             \A q \in valleys :
               \/ sineAmdf(sampleRate, f, period) < sineAmdf(sampleRate, f, q)
               \/ /\ sineAmdf(sampleRate, f, period)
                       = sineAmdf(sampleRate, f, q)
                  /\ period <= q

\* autoCorrelate of the amdf revision on a sine of amplitude a (thousandths)
\* and frequency f: the rms of a sine is a / sqrt(2).
autoCorrelateSine(sampleRate, f, a) ==
  IF a * a < 2 * 15 * 15 THEN NoPitchValue
  ELSE autoCorrelateEnd1(sampleRate, deepestValley(sampleRate, f))

\* Frequencies (Hz) and amplitudes (thousandths) of the sines.
SineFrequencies == {200, 220, 300, 441, 1000, 1500, 2000, 2200}

SineAmplitudes == {10, 300}

EstimateSine(sampleRate, f, a) ==
  /\ impl = "amdf"
  /\ calc' = [op |-> "sine", sampleRate |-> sampleRate, f |-> f,
              amplitude |-> a,
              lag |-> deepestValley(sampleRate, f),
              frequency |-> autoCorrelateSine(sampleRate, f, a)]
  /\ UNCHANGED others

Sine ==
  \E sampleRate \in SampleRates, f \in SineFrequencies, a \in SineAmplitudes :
    EstimateSine(sampleRate, f, a)

\* yin revision, steps 3 and 4 on a normalized difference y (thousandths,
\* y[0] = 1): the sample periods of the components of the buffer, each with
\* the depth its dips reach (1000: no dip); a lag that is a multiple of a
\* period holds the lowest depth of those periods, every other lag holds 1.
CombPeriods == {5, 21, 100}

CombDepths == {0, 140, 200, 1000}

Combs == [CombPeriods -> CombDepths]

yinBufferOf(comb) ==
  [tau \in 0..(yinLength - 1) |->
     LET hit == { comb[P] :
                    P \in { R \in CombPeriods : tau > 0 /\ tau % R = 0 } }
     IN  IF hit = {} THEN 1000
         ELSE CHOOSE v \in hit : \A w \in hit : v <= w]

\* The lags the first search accepts: below the threshold 0.15 and lower
\* than both neighbours; yinBuffer[tau + 1] is undefined at the last lag and
\* the comparison with it false.
firstSearch(y) ==
  { tau \in 2..(yinLength - 2) :
      y[tau] < 150 /\ y[tau] < y[tau - 1] /\ y[tau] < y[tau + 1] }

\* The lag the second search ends on: the first lag from 2 on that holds
\* the lowest value, if that is below the initial minVal = 1000.
secondSearch(y) ==
  LET values == { y[tau] : tau \in 2..(yinLength - 1) }
      lowest == CHOOSE v \in values : \A w \in values : v <= w
      low == { tau \in 2..(yinLength - 1) : y[tau] = lowest }
  IN  IF ~(lowest < 1000 * 1000) THEN 0
      ELSE CHOOSE tau \in low : \A t \in low : tau <= t

\* minTau after both searches.
minTauOf(y) ==
  IF firstSearch(y) # {}
  THEN CHOOSE tau \in firstSearch(y) : \A t \in firstSearch(y) : tau <= t
  ELSE secondSearch(y)

\* s0, s1, s2 around minTau, read only when the interpolation runs.
aroundOf(y, minTau) ==
  IF minTau > 0 /\ minTau < yinLength - 1
  THEN << y[minTau - 1], y[minTau], y[minTau + 1] >>
  ELSE << 0, 0, 0 >>

\* Per normalized difference, computed once: minTau and the values around.
minTauTable ==
  [comb \in Combs |->
     [minTau |-> minTauOf(yinBufferOf(comb)),
      around |-> aroundOf(yinBufferOf(comb), minTauOf(yinBufferOf(comb)))]]
    @@ << >>

\* The yin estimator from the normalized difference on, and the tick's
\* report.
SearchYin(sampleRate, comb) ==
  /\ impl = "yin"
  /\ calc' = [op |-> "search", sampleRate |-> sampleRate, comb |-> comb,
              lag |-> minTauTable[comb].minTau,
              frequency |->
                autoCorrelateEnd2(sampleRate, minTauTable[comb].minTau,
                                  minTauTable[comb].around),
              currentFrequency |->
                reportedFrequency(
                  autoCorrelateEnd2(sampleRate, minTauTable[comb].minTau,
                                    minTauTable[comb].around))]
  /\ UNCHANGED others

Search ==
  \E sampleRate \in SampleRates, comb \in Combs : SearchYin(sampleRate, comb)

\* The functions of the pipeline applied on their own, to inputs drawn
\* from bounded sets.
NextCalc ==
  EstimateAmdf \/ EstimateYin \/ MapNotes \/ Meter \/ Sine \/ Search

SpecCalc == Init /\ [][NextCalc]_vars

(***************************************************************************)
(* Properties.  A tick is a run of processAudio that passes the interval   *)
(* check: a valid tick detects a pitch, a no-pitch tick does not.          *)
(***************************************************************************)
ProcessedTick == step.op \in {"frame", "resolve"} /\ step.processed

ValidTick == ProcessedTick /\ step.frequency > 0

NoPitchTick == ProcessedTick /\ ~(step.frequency > 0)

\* The hold of the swar translator of a revision.
swarHoldOf(im) ==
  CASE im = "amdf" -> swarStabilityDelay
    [] im = "yin" -> swarHold2
    [] im = "simple" -> stabilityThreshold
    [] OTHER -> stabilityDelayBasic

\* The update the last tick delivered.
TickUpdate == updates[Len(updates)]

\* The semitones from the root up to the note, both of WESTERN_NOTES.
Offset(note, root) ==
  (IndexOf(WESTERN_NOTES, note) - IndexOf(WESTERN_NOTES, root) + 12) % 12

\* The swar a revision assigns to an offset: the table entry (yin) or the
\* nearest natural degree.
SwarAt(im, offset) ==
  IF im = "yin" THEN swarMapping[offset + 1] ELSE closestSwarOf(offset)

\* The stabilizer with nothing held, as constructed.
EmptyHold ==
  [lastNote |-> << >>, lastOctave |-> 4, lastNoteTimestamp |-> 0,
   lastSwar |-> IF impl = "basic" THEN "" ELSE "Sa", lastSwarTimestamp |-> 0]

\* C1: in the nearest-7 translators (amdf, simple, basic), when a valid tick
\* changes the emitted swar, the previous change of the emitted swar is at
\* least the translator's stability delay (100 ms) back.
C1_SwarChangesApart ==
  [][(/\ impl \in {"amdf", "simple", "basic"}
      /\ ValidTick'
      /\ hist.changedAt >= 0
      /\ hist'.swar # hist.swar)
       => /\ now' - hist.changedAt >= swarHoldOf(impl)
          /\ swarHoldOf(impl) = 100]_vars

\* C1: a tick 50 ms after a change detects a note of another swar and
\* re-emits the held one.
C1_Witness ==
  /\ impl = "amdf"
  /\ ValidTick
  /\ step.swarPath = "hold"
  /\ step.computed # step.swar
  /\ now - hist.changedAt = Quantum

\* C2: in getStableNote, a valid tick between stabilityDelay and 300 ms
\* after the last accepted change whose detected note differs from the held
\* one returns the detected note and makes it, with its octave, the held
\* note, whatever its cents.
C2_DifferentNoteAccepted ==
  [][(/\ impl = "yin"
      /\ ValidTick'
      /\ lastNote # << >>
      /\ now' - lastNoteTimestamp >= stabilityDelay
      /\ now' - lastNoteTimestamp <= noteResetWindow
      /\ step'.note # lastNote)
       => /\ step'.rnote = step'.note
          /\ step'.roctave = step'.octave
          /\ lastNote' = step'.note
          /\ lastOctave' = step'.octave]_vars

\* C2: D5 is held; 50 ms later a tick detects A4 dead in tune and
\* getStableNote returns D again.
C2_Witness ==
  /\ impl = "yin"
  /\ ValidTick
  /\ step.notePath = "compare"
  /\ step.heldNote = << "D" >>
  /\ step.note = << "A" >>
  /\ step.cents = 0
  /\ step.rnote = << "D" >>
  /\ lastNote = << "D" >>

C4_NoPitchKeepsHeld == [][NoPitchTick' => UNCHANGED stabilizer]_vars

\* C4: a no-pitch tick while a note and a swar are held.
C4_Witness ==
  /\ impl = "yin"
  /\ NoPitchTick
  /\ lastNote # << >>
  /\ lastNoteTimestamp > 0
  /\ lastSwar # "Sa"
  /\ lastSwarTimestamp > 0

\* C5: a tick on an all-zero buffer delivers, as its one update, exactly
\* currentFrequency 0 and 32 levels of 5 (no swar, octave, saptak or clarity
\* field), and the merged state keeps the degree displayed before.
C5_SilentTick ==
  [][(ProcessedTick' /\ step'.buffer = "zero")
       => /\ Len(updates') = (IF step'.op = "resolve" THEN 2 ELSE 1)
          /\ TickUpdate' = ("currentFrequency" :> 0)
                             @@ ("audioLevels" :> [i \in 1..32 |-> 5])
          /\ audioState'.currentFrequency = 0
          /\ audioState'.currentSwar = audioState.currentSwar
          /\ audioState'.currentOctave = audioState.currentOctave
          /\ audioState'.currentSaptak = audioState.currentSaptak
          /\ audioState'.clarity = audioState.clarity
          /\ audioState'.isNoteClean = audioState.isNoteClean]_vars

\* C5: a silent tick while a degree other than the initial one is displayed.
C5_Witness ==
  /\ step.op = "frame"
  /\ ProcessedTick
  /\ step.buffer = "zero"
  /\ hist.swar = "Dha"
  /\ audioState.currentSwar = "Dha"
  /\ audioState.currentFrequency = 0

\* C6: a valid tick whose swar is held back by the hold window re-emits the
\* swar, the octave and the saptak of the tick before.
C6_HoldReemitsOctave ==
  [][(/\ impl \in {"amdf", "yin"}
      /\ ValidTick'
      /\ step'.swarPath = "hold"
      /\ hist.swar # "")
       => /\ TickUpdate'.currentSwar = audioState.currentSwar
          /\ TickUpdate'.currentOctave = audioState.currentOctave
          /\ TickUpdate'.currentSaptak = audioState.currentSaptak]_vars

\* C6: Dha of octave 4 is displayed; 50 ms later D5 is detected and the
\* held Dha goes out with octave 5.
C6_Witness ==
  /\ impl = "amdf"
  /\ ValidTick
  /\ step.swarPath = "hold"
  /\ step.heldSwar = "Dha"
  /\ step.note = << "D" >>
  /\ audioState.currentSwar = "Dha"
  /\ audioState.currentOctave = 5
  /\ audioState.currentSaptak = "Taar"

\* C7: after a stop and a successful start, the first valid tick emits the
\* swar the translator gives its detected note with nothing held.
C7_StartEmptiesHold ==
  [][(hist.afterStop /\ ValidTick')
       => step'.swar =
            indianSwar(impl, step'.note, selectedScale, EmptyHold, now').swar]_vars

\* C7: the first valid tick of a second session, 50 ms after the swar
\* accepted in the first, emits the swar held since then.
C7_Witness ==
  /\ impl = "amdf"
  /\ step.op = "resolve"
  /\ ValidTick
  /\ step.swarPath = "hold"
  /\ step.heldSwar = "Dha"
  /\ step.computed = "Re"
  /\ step.swar = "Dha"

\* C8: the valid tick that follows a call of updateScale emits the swar of
\* the detected note's offset from the new root.
C8_NextTickUsesNewRoot ==
  [][(impl = "amdf" /\ step.op = "scale" /\ ValidTick')
       => step'.swar = SwarAt(impl, Offset(step'.note, selectedScale))]_vars

\* C8: A4 is emitted as Dha under root C; the root becomes A and the tick
\* 50 ms later, A4 again, emits Dha where the new root makes it Sa.
C8_Witness ==
  /\ impl = "amdf"
  /\ ValidTick
  /\ step.op = "frame"
  /\ step.swarPath = "hold"
  /\ selectedScale = << "A" >>
  /\ step.note = << "A" >>
  /\ step.swar = "Dha"

\* C9: for every key of SCALES and every detected note, a valid tick with
\* no hold in force emits the swar of the offset (note - root) mod 12.
C9_SwarOfOffset ==
  (/\ ValidTick
   /\ step.swarPath = "accept"
   /\ step.rnote = step.note
   /\ selectedScale \in SCALES)
    => step.swar = SwarAt(impl, Offset(step.note, selectedScale))

\* C9: with root C# a detected C# is not Sa.
C9_Witness ==
  /\ impl = "yin"
  /\ ValidTick
  /\ step.swarPath = "accept"
  /\ selectedScale = << "C", "#" >>
  /\ step.note = << "C", "#" >>
  /\ step.rnote = step.note
  /\ step.swar = "Reb"

\* C10: in the yin translator with root C and no hold in force, the notes
\* C, C#, ..., B yield Sa, komal Re, Re, komal Ga, Ga, Ma, tivra Ma, Pa,
\* komal Dha, Dha, komal Ni, Ni in that order, twelve distinct degrees.
C10_TableForRootC ==
  LET table == << "Sa", "Reb", "Re", "Gab", "Ga", "Ma", "Ma#", "Pa", "Dhab",
                  "Dha", "Nib", "Ni" >>
  IN  (/\ impl = "yin"
       /\ ValidTick
       /\ step.swarPath = "accept"
       /\ step.rnote = step.note
       /\ selectedScale = << "C" >>)
        => /\ step.swar = table[IndexOf(WESTERN_NOTES, step.note) + 1]
           /\ step.computed = step.swar
           /\ Cardinality({ table[i] : i \in 1..12 }) = 12

\* C10: F# under root C is tivra Ma.
C10_Witness ==
  /\ impl = "yin"
  /\ ValidTick
  /\ step.swarPath = "accept"
  /\ selectedScale = << "C" >>
  /\ step.note = << "F", "#" >>
  /\ step.swar = "Ma#"

\* C11: a call of updateScale with a string that is no key of SCALES leaves
\* the stored root as it was, so the stored root is always a key of SCALES.
C11_InvalidRootRejected ==
  [][(step'.op = "scale" /\ step'.scale \notin SCALES)
       => /\ selectedScale' = selectedScale
          /\ selectedScale' \in SCALES]_vars

\* C11: 'H' was stored as the root and a tick that detects A4 emits the
\* default Sa.
C11_Witness ==
  /\ impl = "amdf"
  /\ selectedScale = << "H" >>
  /\ ValidTick
  /\ step.note = << "A" >>
  /\ step.swarPath = "default"
  /\ step.swar = "Sa"

\* C12: whatever lag the estimator ends on and whatever the sample rate, the
\* currentFrequency the tick reports is 0 or lies within 200 .. 2200 Hz.
C12_ReportedFrequencyInRange ==
  calc.op = "estimate"
    => /\ calc.currentFrequency.den > 0
       /\ \/ calc.currentFrequency.num = 0
          \/ /\ calc.currentFrequency.num >= 200 * calc.currentFrequency.den
             /\ calc.currentFrequency.num <= 2200 * calc.currentFrequency.den

C12_Witness ==
  /\ calc.op = "estimate"
  /\ impl = "yin"
  /\ IsNaN(calc.frequency)
  /\ calc.currentFrequency = Q(0, 1)

\* C13: the amdf estimator returns a pitch for a selected period exactly when
\* sampleRate / period lies within 200 .. 2200 Hz, and the pitch it returns
\* is sampleRate / period.
C13_PeriodFrequencyReturned ==
  (calc.op = "estimate" /\ impl = "amdf" /\ calc.lag # 0)
    => /\ (calc.frequency # NoPitchValue)
            <=> /\ calc.sampleRate >= 200 * calc.lag
                /\ calc.sampleRate <= 2200 * calc.lag
       /\ (calc.frequency # NoPitchValue)
            => calc.frequency.num * calc.lag
                 = calc.sampleRate * calc.frequency.den

\* A period of 210 Hz, inside the range, is rejected.
C13_Witness ==
  /\ calc.op = "estimate"
  /\ impl = "amdf"
  /\ calc.sampleRate = 44100
  /\ calc.lag = 210
  /\ calc.frequency = NoPitchValue

\* The silence threshold of the revision, in thousandths.
silenceThreshold(im) == IF im \in {"amdf", "yin"} THEN 15 ELSE 10

\* C14: on a tick whose buffer has an RMS below the silence threshold the
\* estimator reports no pitch, whatever period the buffer has, and the
\* update of the tick has currentFrequency 0.
C14_SilenceFirst ==
  (ProcessedTick /\ Amplitude(step.buffer) < silenceThreshold(impl))
    => /\ step.frequency = -1
       /\ TickUpdate.currentFrequency = 0

C14_Witness ==
  /\ ProcessedTick
  /\ impl = "yin"
  /\ step.buffer = "faint"
  /\ step.frequency = -1
  /\ TickUpdate.currentFrequency = 0

\* C15: for every rounded half-step offset r from A4 of a frequency within
\* 200 .. 2200 Hz (r in -14 .. 28) the mappers anchored at C0 and the mapper
\* anchored at A4 give the same chromatic index, (r + 57) mod 12 within
\* 0 .. 11, and the same octave, floor((r + 57) / 12); r = 0 gives index 9
\* and octave 4.
C15_MappersAgree ==
  (calc.op = "note" /\ RoundHalfSteps(calc.x) - 57 \in -14..28)
    => LET r == RoundHalfSteps(calc.x) - 57
       IN  /\ IndexOf(WESTERN_NOTES, calc.c0.note) = (r + 57) % 12
           /\ IndexOf(WESTERN_NOTES, calc.a4.note) = (r + 57) % 12
           /\ IndexOf(WESTERN_NOTES, calc.basic.note) = (r + 57) % 12
           /\ IndexOf(WESTERN_NOTES, calc.c0.note) \in 0..11
           /\ calc.c0.octave = (r + 57) \div 12
           /\ calc.a4.octave = calc.c0.octave
           /\ calc.basic.octave = calc.c0.octave
           /\ r = 0 => (calc.a4.note = << "A" >> /\ calc.a4.octave = 4)

C15_Witness ==
  /\ calc.op = "note"
  /\ RoundHalfSteps(calc.x) - 57 = -14
  /\ calc.c0.note = << "G" >>
  /\ calc.a4.note = << "G" >>
  /\ calc.a4.octave = 3

\* C16: in the state Home keeps by merging every update, currentSaptak is the
\* register of currentOctave: Mandra up to 3, Madhya for 4, Taar from 5.
C16_SaptakOfOctave ==
  /\ audioState.currentOctave <= 3 => audioState.currentSaptak = "Mandra"
  /\ audioState.currentOctave = 4 => audioState.currentSaptak = "Madhya"
  /\ audioState.currentOctave >= 5 => audioState.currentSaptak = "Taar"

C16_Witness ==
  /\ audioState.currentOctave = 3
  /\ audioState.currentSaptak = "Mandra"
  /\ NoPitchTick
  /\ hist.afterStop

TickUpdates == { i \in 1..Len(updates) : "audioLevels" \in DOMAIN updates[i] }

\* C19: a processed tick calls the update callback exactly once, whatever the
\* buffer, the detected frequency and the stored root, and the update holds
\* audioLevels and currentFrequency.
C19_OneUpdatePerTick ==
  ProcessedTick
    => /\ Cardinality(TickUpdates) = 1
       /\ Len(updates) = (IF step.op = "resolve" THEN 2 ELSE 1)
       /\ TickUpdates = {Len(updates)}
       /\ "currentFrequency" \in DOMAIN TickUpdate
       /\ DOMAIN TickUpdate.audioLevels = 1..numBars

C19_Witness ==
  /\ ProcessedTick
  /\ step.op = "resolve"
  /\ impl = "simple"
  /\ selectedScale = << "D", "b" >>
  /\ step.buffer = "faint"
  /\ step.frequency > 0
  /\ Cardinality(TickUpdates) = 1

\* C20: for a sine of f Hz within 200 .. 2200 whose rms reaches the silence
\* threshold the estimator returns a pitch within 1 % of f.
C20_SineWithinOnePercent ==
  (calc.op = "sine" /\ calc.amplitude * calc.amplitude >= 2 * 15 * 15)
    => /\ calc.frequency # NoPitchValue
       /\ 100 * Abs(calc.frequency.num - calc.f * calc.frequency.den)
            <= calc.f * calc.frequency.den

\* The sine of 2000 Hz at 44100 Hz: period 22, returned 1.2 % high.
C20_Witness ==
  /\ calc.op = "sine"
  /\ calc.sampleRate = 44100
  /\ calc.f = 2000
  /\ calc.amplitude = 300
  /\ calc.lag = 22
  /\ calc.frequency = Q(44100 * 101, 2200)

\* The lags within [sampleRate / 2200, sampleRate / 200] whose normalized
\* difference is below 0.15 and a strict local minimum.
CandidateLags ==
  { tau \in 2..(yinLength - 2) :
      /\ tau * 2200 >= calc.sampleRate
      /\ tau * 200 <= calc.sampleRate
      /\ yinBufferOf(calc.comb)[tau] < 150
      /\ yinBufferOf(calc.comb)[tau] < yinBufferOf(calc.comb)[tau - 1]
      /\ yinBufferOf(calc.comb)[tau] < yinBufferOf(calc.comb)[tau + 1] }

\* C21: whenever a lag within [sampleRate / 2200, sampleRate / 200] is below
\* the threshold and a strict local minimum, the yin estimator selects the
\* smallest such lag and the tick reports a valid pitch.
C21_SmallestCandidateLag ==
  (calc.op = "search" /\ CandidateLags # {})
    => /\ calc.lag \in CandidateLags
       /\ \A tau \in CandidateLags : calc.lag <= tau
       /\ QGt(calc.currentFrequency, 0)

\* A component of period 5 samples (8820 Hz at 44100 Hz): lag 5 is taken,
\* lags 25, 30, ... of the range are passed over, no pitch is reported.
C21_Witness ==
  /\ calc.op = "search"
  /\ calc.sampleRate = 44100
  /\ calc.comb[5] = 0
  /\ calc.comb[21] = 1000
  /\ calc.comb[100] = 1000
  /\ 25 \in CandidateLags
  /\ calc.lag = 5
  /\ calc.currentFrequency = Q(0, 1)

RelativeIndex ==
  IF impl = "amdf"
  THEN Offset(step.note, CharAt0(selectedScale))
  ELSE Offset(CharAt0(step.note), CharAt0(selectedScale))

\* C23: in the nearest-7 translators the swar computed for a relative offset
\* is the natural degree at the smallest circular distance, the lower one of
\* two equally near (1 Sa, 3 Re, 6 Ma, 8 Pa, 10 Dha), and every swar a tick
\* emits is one of Sa, Re, Ga, Ma, Pa, Dha, Ni.
C23_NearestNaturalDegree ==
  LET nearest == << "Sa", "Sa", "Re", "Re", "Ga", "Ma", "Ma", "Pa", "Pa",
                    "Dha", "Dha", "Ni" >>
  IN  ValidTick
        => /\ TickUpdate.currentSwar
                \in {"Sa", "Re", "Ga", "Ma", "Pa", "Dha", "Ni"}
           /\ step.swarPath = "accept"
                => /\ step.swar = nearest[RelativeIndex + 1]
                   /\ TickUpdate.currentSwar = step.swar

C23_Witness ==
  /\ impl = "amdf"
  /\ ValidTick
  /\ step.swarPath = "accept"
  /\ selectedScale = << "D" >>
  /\ step.note = << "C" >>
  /\ RelativeIndex = 10
  /\ TickUpdate.currentSwar = "Dha"

\* C24: in the yin revision, if time and valid ticks go on, each tick less
\* than 300 ms after the previous one, and from some tick on every tick
\* detects the same note, then from some tick on getStableNote returns that
\* note on every tick.
C24_SustainedNoteShown ==
  \A N \in { << "A" >>, << "A", "#" >>, << "D" >> } :
    (/\ []<>(step.op = "elapse")
     /\ []<>(step.op = "frame")
     /\ <>[](step.op = "frame" => (ValidTick /\ step.note = N)))
      => <>[](step.op = "frame" => step.rnote = N)

\* A held D is returned on a tick that detects A in tune, 50 ms after the
\* tick before.
C24_Witness ==
  /\ impl = "yin"
  /\ ValidTick
  /\ step.op = "frame"
  /\ step.note = << "A" >>
  /\ step.cents = 0
  /\ step.notePath = "compare"
  /\ step.rnote = << "D" >>

\* Loops left scheduled by earlier sessions when the button is pressed
\* again.
MaxLoops == 2

\* startProcessing called again while earlier calls still await the
\* microphone: isProcessing is still false, so the guard lets the call in,
\* and the new AudioContext replaces the one the earlier call created.
startProcessingWhileAwaiting ==
  /\ frames < MaxLoops
  /\ starting >= MaxStarts
  /\ starting < MaxStarts + MaxStarts
  /\ ~isProcessing
  /\ step' = Op("start")
  /\ updates' = << >>
  /\ audioContext' = TRUE
  /\ starting' = starting + 1
  /\ UNCHANGED << impl, calc, now, pauses, isProcessing, stream, microphone,
                  analyser, animationFrame, frames, selectedScale,
                  lastProcessingTime, stabilizer, audioState, hist >>

StartAgain == startProcessingWhileAwaiting

InitOverlap == Init /\ impl \in {"amdf", "simple"}

\* Sessions in which the start button is pressed again before the first
\* request for the microphone is answered.
NextOverlap ==
  AdvanceSession \/ Start \/ StartAgain \/ Resolve \/ Reject \/ Stop \/ Tick

SpecOverlap == InitOverlap /\ [][NextOverlap]_vars

\* C25: after every stopProcessing the processor holds no capture stream and
\* no audio context, and at most one processing loop is scheduled at any
\* time, also when startProcessing is called again while the first call is
\* still awaiting the microphone.
C25_ReleasedAndOneLoop ==
  /\ step.op = "stop" => (~stream /\ ~audioContext)
  /\ frames <= 1

\* Two calls overlapped, both were granted the microphone, and two loops
\* are scheduled.
C25_Witness ==
  /\ isProcessing
  /\ starting = 0
  /\ frames = 2

\* C26: a stop is never lost: when stopProcessing was called while a
\* startProcessing call awaited the microphone, the completion of that call
\* leaves the processor not processing and without a stream, and delivers no
\* tick update.
C26_StopNotLost ==
  [][(step.op = "stop" /\ starting > 0 /\ starting' < starting)
       => (~isProcessing' /\ ~stream' /\ TickUpdates' = {})]_vars

\* stopProcessing has just returned while a start call awaits the
\* microphone.
C26_Witness ==
  /\ step.op = "stop"
  /\ starting > 0
  /\ ~isProcessing
  /\ audioContext

\* C27: whenever no startProcessing call is in flight, the last isListening
\* value delivered to the update callback (false before any delivery) equals
\* isProcessing; a start while processing and a stop while idle deliver no
\* update.
C27_ListeningIsProcessing ==
  [][/\ starting' = 0 => audioState'.isListening = isProcessing'
     /\ (step'.op = "start" /\ isProcessing) => updates' = << >>
     /\ (step'.op = "stop" /\ ~isProcessing) => updates' = << >>]_vars

\* No call is in flight, the processor is processing, and the last update
\* with isListening said false.
C27_Witness ==
  /\ starting = 0
  /\ isProcessing
  /\ ~audioState.isListening
  /\ step.op = "reject"

\* C28: after a start that failed to obtain the microphone the processor is
\* idle and clean: isProcessing is false, no loop is scheduled, exactly one
\* update was delivered (isListening false, currentSwar "Error"), and
\* audioContext, stream, microphone and analyser are all null.
C28_FailedStartClean ==
  step.op = "reject" =>
    /\ ~isProcessing
    /\ frames = 0
    /\ ~animationFrame
    /\ Len(updates) = 1
    /\ updates[1].isListening = FALSE
    /\ updates[1].currentSwar = "Error"
    /\ ~audioContext
    /\ ~stream
    /\ ~microphone
    /\ ~analyser

\* The microphone was refused and the AudioContext created before the
\* request is still referenced.
C28_Witness ==
  /\ step.op = "reject"
  /\ ~isProcessing
  /\ audioContext
  /\ ~stream

\* C29: in the UI state obtained by merging every update into the previous
\* state, isNoteClean is true exactly when clarity is "clear".
C29_CleanIffClear ==
  audioState.isNoteClean <=> (audioState.clarity = "clear")

\* The error update of the first revision has been merged: isNoteClean is
\* false and clarity is still "clear".
C29_Witness ==
  /\ impl = "amdf"
  /\ step.op = "reject"
  /\ ~audioState.isNoteClean
  /\ audioState.clarity = "clear"

(***************************************************************************)
(* Home's practice statistics, kept by the update callback.                *)
(***************************************************************************)
\* Bound of the two counters.
MaxNotes == 3

\* The fields of an update the callback reads: valid ticks on two swars with
\* every clarity, the no-pitch tick, the update of a start and the update
\* of a failed start.
PracticeUpdates ==
  { ("currentFrequency" :> 440) @@ ("currentSwar" :> s) @@ ("clarity" :> c)
      @@ ("isNoteClean" :> (c = "clear")) :
      s \in {"Sa", "Re"}, c \in {"clear", "somewhat", "unclear"} }
    \cup { "currentFrequency" :> 0,
           "isListening" :> TRUE,
           ("isListening" :> FALSE) @@ ("currentSwar" :> "Error")
             @@ ("isNoteClean" :> FALSE) }

\* The two setPracticeStats calls of the callback, for an update with a
\* positive currentFrequency.
practiceStatsAfter(prevState, stats, newState) ==
  IF "currentFrequency" \in DOMAIN newState /\ newState.currentFrequency > 0
  THEN [correctNotes |->
          IF /\ "clarity" \in DOMAIN newState
             /\ prevState.clarity # "clear"
             /\ newState.clarity = "clear"
          THEN stats.correctNotes + 1 ELSE stats.correctNotes,
        totalNotes |->
          IF /\ "currentSwar" \in DOMAIN newState
             /\ prevState.currentSwar # newState.currentSwar
             /\ newState.currentSwar # ""
          THEN stats.totalNotes + 1 ELSE stats.totalNotes]
  ELSE stats

\* The accuracy shown: Math.round(correctNotes / totalNotes * 100), 0 when
\* no note was counted.
accuracyOf(stats) ==
  IF stats.totalNotes > 0
  THEN (200 * stats.correctNotes + stats.totalNotes) \div (2 * stats.totalNotes)
  ELSE 0

\* The callback given to the processor: statistics, then the merge.
HomeCallback(newState) ==
  /\ LET prevState == IF calc.op = "practice" THEN calc.audioState
                      ELSE InitialAudioState
         stats == IF calc.op = "practice" THEN calc.practiceStats
                  ELSE [correctNotes |-> 0, totalNotes |-> 0]
         after == practiceStatsAfter(prevState, stats, newState)
     IN  /\ after.correctNotes <= MaxNotes
         /\ after.totalNotes <= MaxNotes
         /\ calc' = [op |-> "practice",
                     audioState |-> Merge(prevState, newState),
                     practiceStats |-> after,
                     accuracy |-> accuracyOf(after)]
  /\ UNCHANGED others

\* startAudioCapture, after the start call returned: the counters restart.
startAudioCapture ==
  /\ calc.op = "practice"
  /\ calc' = [calc EXCEPT !.practiceStats = [correctNotes |-> 0, totalNotes |-> 0],
                          !.accuracy = 0]
  /\ UNCHANGED others

Update == \E newState \in PracticeUpdates : HomeCallback(newState)

Capture == startAudioCapture

InitPractice == Init /\ impl \in {"amdf", "yin"}

NextPractice == Update \/ Capture

\* Home under any sequence of updates of the processor it creates.
SpecPractice == InitPractice /\ [][NextPractice]_vars

\* C30: correctNotes <= totalNotes in every reachable state, and the
\* accuracy shown never exceeds 100.
C30_CorrectWithinTotal ==
  calc.op = "practice" =>
    /\ calc.practiceStats.correctNotes <= calc.practiceStats.totalNotes
    /\ calc.accuracy <= 100

\* One swar was counted once and played clear twice: the accuracy shown is
\* 200.
C30_Witness ==
  /\ calc.op = "practice"
  /\ calc.practiceStats.totalNotes = 1
  /\ calc.practiceStats.correctNotes = 2
  /\ calc.accuracy = 200

====
